---- MODULE Spec2Model ----
(***************************************************************************)
(* Model of the JoseCoin ledger backend (jcoin/josecoin.py): the accounts, *)
(* wallets and transactions tables, and the create_account and transfer    *)
(* request handlers, run as concurrent coroutines whose store calls are    *)
(* the points where they interleave.                                       *)
(***************************************************************************)
EXTENDS Integers, Sequences, FiniteSets, TLC

\* ------------------------------------------------------------------ bounds
\* Request slots that may be in flight at once.
MaxReq == 2
\* Requests started in one behaviour.
MaxStarted == 2

Reqs == 1..MaxReq
\* Account ids a request may name: 1 and 2 exist initially, 3 is fresh.
Ids == {1, 2, 3}

\* ---------------------------------------------------------------- decimals
\* decimal.Decimal values.  A value is c * 10^-4 + f * 10^-20: c counts the
\* ten-thousandths, f the units of the twentieth decimal place.  f stays far
\* below 10^16 in every state, so the order is lexicographic.
Dec(c, f) == [c |-> c, f |-> f]
Zero == Dec(0, 0)
DecAdd(a, b) == Dec(a.c + b.c, a.f + b.f)
DecSub(a, b) == Dec(a.c - b.c, a.f - b.f)
DecLT(a, b) == a.c < b.c \/ (a.c = b.c /\ a.f < b.f)
DecLE(a, b) == a = b \/ DecLT(a, b)

\* The minimum transferable amount of the specification, 0.0009.
MinAmount == Dec(9, 0)
\* The float literal 0.0009 is the binary double
\* 0.00089999999999999997536..., that is 0.0009 - 2.46 * 10^-20: the largest
\* decimal of the grid below it is 0.0009 - 3 * 10^-20.
BelowFloatMin == Dec(9, -3)
\* amount < 0.0009, Decimal against float: Python compares the exact values.
LtFloatMin(amount) == DecLE(amount, BelowFloatMin)

\* Amounts a request may carry: -0.0009, 0, 0.0005, 0.00089999999999999999,
\* 0.0009 and 0.0018.
Amounts == {Dec(-9, 0), Zero, Dec(5, 0), Dec(9, -1), Dec(9, 0), Dec(18, 0)}
\* The balance account 1 starts with: 0.0018, two minimum transfers.
InitBalance == Dec(18, 0)

\* ------------------------------------------------------------------ tables
USER == 0
TAXBANK == 1
AccountTypes == {USER, TAXBANK}
\* Line 83 takes any integer as the type: one that is neither member.
OtherType == 2
TypeInputs == AccountTypes \cup {OtherType}

\* The store's default for accounts.amount and for the wallets counters.
DefaultAmount == Zero
DefaultCounter == 0

AccountRow(id, t, amt) == [account_id |-> id, account_type |-> t, amount |-> amt]
WalletRow(id) ==
  [user_id |-> id, taxpaid |-> DefaultAmount, steal_uses |-> DefaultCounter,
   steal_success |-> DefaultCounter]
TxRow(s, r, amt) == [sender |-> s, receiver |-> r, amount |-> amt]

None == [account_id |-> 0]

VARIABLES
  accounts,      \* committed rows of the accounts table, in insertion order
  wallets,       \* committed rows of the wallets table
  transactions,  \* committed rows of the transactions table
  pend,          \* per request: the balances its open transaction has written
  wpend,         \* per request: the wallet rows its open transaction has written
  plog,          \* per request: the transaction rows its open transaction holds
  pc,            \* per request: the statement it is about to run
  args,          \* per request: the decoded request
  loc,           \* per request: the handler's local variables
  resp,          \* per request: the response sent
  started        \* requests started so far

vars == <<accounts, wallets, transactions, pend, wpend, plog, pc, args, loc, resp, started>>
tables == <<accounts, wallets, transactions>>

NoArgs == [op |-> "none"]
NoLoc == [accs |-> <<>>, res |-> <<>>]
NoResp == [kind |-> "none", msg |-> "", vals |-> <<>>]
NoWrites == <<>>

\* ----------------------------------------------------------------- errors
\* errors.py: InputError, AccountNotFoundError and ConditionError derive from
\* GenericError; anything else a handler raises is not of that family.
GenericErrors == {"InputError", "AccountNotFoundError", "ConditionError"}

\* @app.exception(GenericError): the error envelope, for that family only; any
\* other exception leaves the handler unhandled (the server's generic 500).
handle_generic_error(exc, msg) ==
  IF exc \in GenericErrors
    THEN [kind |-> exc, msg |-> msg, vals |-> <<>>]
    ELSE [kind |-> "Unhandled", msg |-> exc, vals |-> <<>>]

\* --------------------------------------------------------------- the store
HasAccount(tbl, id) == \E i \in 1..Len(tbl) : tbl[i].account_id = id
\* The balance of account id in table tbl (the row is unique; see Insertable).
AmountOf(tbl, id) ==
  LET i == CHOOSE j \in 1..Len(tbl) : tbl[j].account_id = id IN tbl[i].amount
WalletCount(tbl, id) == Cardinality({i \in 1..Len(tbl) : tbl[i].user_id = id})
AccountCount(tbl, id) == Cardinality({i \in 1..Len(tbl) : tbl[i].account_id = id})

\* The uniqueness constraint on accounts.account_id.
Insertable(tbl, id) == ~HasAccount(tbl, id)

\* Row-level locks: a row an open transaction has updated is locked by it until
\* the transaction ends.
Holder(id) ==
  IF \E q \in Reqs : id \in DOMAIN pend[q]
    THEN CHOOSE q \in Reqs : id \in DOMAIN pend[q]
    ELSE 0
LockFree(r, id) == Holder(id) \in {0, r}

\* What transaction r sees of account id: its own write, else the committed row.
Visible(r, id) == IF id \in DOMAIN pend[r] THEN pend[r][id] ELSE AmountOf(accounts, id)

\* Faulty variant: the UPDATE without its WHERE clause, every row changed.
TxUpdate_NoWhere(r, id, delta) ==
  [i \in DOMAIN pend[r] \cup {accounts[j].account_id : j \in 1..Len(accounts)} |->
     DecAdd(Visible(r, i), delta)]
\* UPDATE accounts SET amount=accounts.amount + delta WHERE account_id = id,
\* inside r's transaction: the new balance is computed from the row as it is
\* when the statement runs, and stays r's own until the commit.
TxUpdate(r, id, delta) ==
  IF HasAccount(accounts, id)
    THEN [i \in DOMAIN pend[r] \cup {id} |->
            IF i = id THEN DecAdd(Visible(r, id), delta) ELSE pend[r][i]]
    ELSE pend[r]

\* COMMIT: the transaction's writes replace the committed balances.
ApplyWrites(tbl, w) ==
  [i \in 1..Len(tbl) |->
     IF tbl[i].account_id \in DOMAIN w
       THEN [tbl[i] EXCEPT !.amount = w[tbl[i].account_id]]
       ELSE tbl[i]]

\* ---------------------------------------------------------------- requests
TransferArgs ==
  [op : {"transfer"}, sender_id : Ids, receiver : Ids, amount : Amounts]
CreateArgs ==
  [op : {"create"}, account_id : Ids, type : TypeInputs]

\* The request surface dispatches a request into slot r: one task per request.
\* The slots are interchangeable, so a new request takes the lowest free one.
Dispatch(r, a) ==
  /\ pc[r] = "idle"
  /\ \A q \in Reqs : q < r => pc[q] # "idle"
  /\ started < MaxStarted
  /\ started' = started + 1

Goto(r, label) == pc' = [pc EXCEPT ![r] = label]

\* Handler r returns: its task ends and the slot is free again; resp keeps the
\* last response sent from the slot.
Finish(r) ==
  /\ pc' = [pc EXCEPT ![r] = "idle"]
  /\ args' = [args EXCEPT ![r] = NoArgs]
  /\ loc' = [loc EXCEPT ![r] = NoLoc]

\* An exception leaves handler r: an open transaction is rolled back, and the
\* response is the envelope or the unhandled failure.
Raise(r, exc, msg) ==
  /\ resp' = [resp EXCEPT ![r] = handle_generic_error(exc, msg)]
  /\ Finish(r)
  /\ pend' = [pend EXCEPT ![r] = NoWrites]
  /\ wpend' = [wpend EXCEPT ![r] = NoWrites]
  /\ plog' = [plog EXCEPT ![r] = <<>>]
  /\ UNCHANGED tables


\* ---------------------------------------------------------------- transfer
\* Faulty variant: the self-transfer check placed after the amount check's pass.
SelfTransfer_WhenFunded(a) == a.receiver = a.sender_id /\ ~DecLT(a.amount, MinAmount)
\* Line 106: receiver_id == sender_id
SelfTransfer(a) == a.receiver = a.sender_id

\* Lines 103-110, run as the request is dispatched, before the first await:
\* decode, then the self-transfer and minimum-amount checks.
Transfer(r, a) ==
  /\ Dispatch(r, a)
  /\ IF SelfTransfer(a)
       THEN Raise(r, "InputError", "Account can not transfer to itself")
       ELSE IF LtFloatMin(a.amount)
         THEN Raise(r, "InputError", "Negative amounts are not allowed")
         ELSE /\ args' = [args EXCEPT ![r] = a]
              /\ Goto(r, "t_fetch")
              /\ resp' = [resp EXCEPT ![r] = NoResp]
              /\ UNCHANGED <<wpend, tables, pend, plog, loc>>

\* SELECT * FROM accounts WHERE account_id=$1 or account_id=$2
FetchAccounts(tbl, a, b) ==
  LET Hit(row) == row.account_id = a \/ row.account_id = b IN SelectSeq(tbl, Hit)

\* accounts = {a['account_id']: a for a in accs}; accounts.get(id)
Get(accs, id) ==
  IF \E i \in 1..Len(accs) : accs[i].account_id = id
    THEN accs[CHOOSE i \in 1..Len(accs) :
                /\ accs[i].account_id = id
                /\ \A j \in 1..Len(accs) : accs[j].account_id = id => j <= i]
    ELSE None

\* Faulty variant: the comparison the wrong way round.
Insufficient_Reversed(amount, sender_amount) == DecLT(amount, sender_amount)
\* amount > sender_amount, on the balance the SELECT returned.
Insufficient(amount, sender_amount) == DecLT(sender_amount, amount)

\* Lines 112-131: one SELECT of both rows, outside any transaction, then, on
\* the rows it returned, the existence checks and the funds check.
TransferFetch(r) ==
  /\ pc[r] = "t_fetch"
  /\ UNCHANGED started
  /\ LET accs == FetchAccounts(accounts, args[r].sender_id, args[r].receiver)
         sender == Get(accs, args[r].sender_id)
         receiver == Get(accs, args[r].receiver)
     IN IF sender = None
          THEN Raise(r, "AccountNotFoundError", "Sender is missing account")
          ELSE IF receiver = None
            THEN Raise(r, "AccountNotFoundError", "Receiver is missing account")
            ELSE IF Insufficient(args[r].amount, sender.amount)
              THEN Raise(r, "ConditionError", "Not enough funds")
              ELSE /\ loc' = [loc EXCEPT ![r].accs = accs]
                   /\ Goto(r, "t_debit")
                   /\ UNCHANGED <<wpend, tables, pend, plog, args, resp>>

\* Faulty variant: the sender's new balance computed from the balance read at
\* line 112, as amount = sender_amount - amount would write it.
DebitWrites_FromRead(r) ==
  [i \in DOMAIN pend[r] \cup {args[r].sender_id} |->
     IF i = args[r].sender_id
       THEN DecSub(Get(loc[r].accs, args[r].sender_id).amount, args[r].amount)
       ELSE pend[r][i]]
\* The balance the first UPDATE of the transaction writes for the sender.
DebitWrites(r) == TxUpdate(r, args[r].sender_id, DecSub(Zero, args[r].amount))
\* Faulty variant: the receiver's UPDATE with the sender's sign.
CreditWrites_Debits(r) == TxUpdate(r, args[r].receiver, DecSub(Zero, args[r].amount))
\* The balance the second UPDATE writes for the receiver.
CreditWrites(r) == TxUpdate(r, args[r].receiver, args[r].amount)

\* Lines 133-139: a connection, BEGIN, and the sender's UPDATE, which waits for
\* the row's lock.
TransferDebit(r) ==
  /\ pc[r] = "t_debit"
  /\ LockFree(r, args[r].sender_id)
  /\ pend' = [pend EXCEPT ![r] = DebitWrites(r)]
  /\ Goto(r, "t_credit")
  /\ UNCHANGED <<wpend, tables, plog, args, loc, resp, started>>

\* Lines 141-145: the receiver's UPDATE.
TransferCredit(r) ==
  /\ pc[r] = "t_credit"
  /\ LockFree(r, args[r].receiver)
  /\ pend' = [pend EXCEPT ![r] = CreditWrites(r)]
  /\ Goto(r, "t_log")
  /\ UNCHANGED <<wpend, tables, plog, args, loc, resp, started>>

\* Faulty variant: the audit row with sender and receiver exchanged.
LogRows_Swapped(r) == <<TxRow(args[r].receiver, args[r].sender_id, args[r].amount)>>
\* The rows the INSERT INTO transactions adds to the open transaction.
LogRows(r) == <<TxRow(args[r].sender_id, args[r].receiver, args[r].amount)>>

\* Lines 148-151: the audit row, still inside the transaction.
TransferLog(r) ==
  /\ pc[r] = "t_log"
  /\ plog' = [plog EXCEPT ![r] = plog[r] \o LogRows(r)]
  /\ Goto(r, "t_commit")
  /\ UNCHANGED <<wpend, tables, pend, args, loc, resp, started>>

\* Leaving `async with conn.transaction()`: COMMIT makes the two balances and
\* the audit row visible at once and releases the locks.
TransferCommit(r) ==
  /\ pc[r] = "t_commit"
  /\ accounts' = ApplyWrites(accounts, pend[r])
  /\ transactions' = transactions \o plog[r]
  /\ pend' = [pend EXCEPT ![r] = NoWrites]
  /\ plog' = [plog EXCEPT ![r] = <<>>]
  /\ Goto(r, "t_respond")
  /\ UNCHANGED <<wpend, wallets, args, loc, resp, started>>

\* Lines 153-156: both echoed balances come from the rows fetched at line 112.
\* Faulty variant: the balances as read, without the amount moved.
TransferResponse_AsRead(r) ==
  LET sender == Get(loc[r].accs, args[r].sender_id)
      receiver == Get(loc[r].accs, args[r].receiver)
  IN [kind |-> "ok", msg |-> "", vals |-> <<sender.amount, receiver.amount>>]
TransferResponse(r) ==
  LET sender == Get(loc[r].accs, args[r].sender_id)
      receiver == Get(loc[r].accs, args[r].receiver)
  IN [kind |-> "ok", msg |-> "",
      vals |-> <<DecSub(sender.amount, args[r].amount),
                 DecAdd(receiver.amount, args[r].amount)>>]

TransferRespond(r) ==
  /\ pc[r] = "t_respond"
  /\ resp' = [resp EXCEPT ![r] = TransferResponse(r)]
  /\ Finish(r)
  /\ UNCHANGED <<wpend, tables, pend, plog, started>>

\* ---------------------------------------------------------- create_account
\* The row INSERT INTO accounts (account_id, account_type) adds.
NewAccount(r) == AccountRow(args[r].account_id, args[r].type, DefaultAmount)

\* Lines 82-83, run as the request is dispatched: decode the account type.
CreateAccount(r, a) ==
  /\ Dispatch(r, a)
  /\ args' = [args EXCEPT ![r] = a]
  /\ Goto(r, "c_account")
  /\ resp' = [resp EXCEPT ![r] = NoResp]
  /\ UNCHANGED <<wpend, tables, pend, plog, loc>>

\* Faulty variant: a wallet for every account type.
NeedsWallet_Always(t) == TRUE
\* Faulty variant: the wallet for the other member of AccountType.
NeedsWallet_Taxbank(t) == t = 1
\* Line 90: account_type == 0
NeedsWallet(t) == t = 0

\* Lines 85-88: the accounts INSERT, a statement of its own on the pool
\* (committed as it returns).  A duplicate id makes the store raise
\* UniqueViolationError, which the handler does not catch.
CreateInsertAccount(r) ==
  /\ pc[r] = "c_account"
  /\ IF Insertable(accounts, args[r].account_id)
       THEN /\ accounts' = Append(accounts, NewAccount(r))
            /\ loc' = [loc EXCEPT ![r].res = <<"INSERT", "0", "1">>]
            /\ Goto(r, IF NeedsWallet(args[r].type) THEN "c_wallet" ELSE "c_respond")
            /\ UNCHANGED <<wpend, wallets, transactions, pend, plog, args, resp, started>>
       ELSE /\ Raise(r, "UniqueViolationError", "duplicate key")
            /\ UNCHANGED started

\* Lines 90-94: the wallets INSERT, a second statement of its own.
CreateInsertWallet(r) ==
  /\ pc[r] = "c_wallet"
  /\ wallets' = Append(wallets, WalletRow(args[r].account_id))
  /\ Goto(r, "c_respond")
  /\ UNCHANGED <<wpend, accounts, transactions, pend, plog, args, loc, resp, started>>

\* Lines 96-97: _, _, rows = res.split()
CreateRespond(r) ==
  /\ pc[r] = "c_respond"
  /\ resp' = [resp EXCEPT ![r] = [kind |-> "ok", msg |-> "", vals |-> <<loc[r].res[3]>>]]
  /\ Finish(r)
  /\ UNCHANGED <<wpend, tables, pend, plog, started>>

\* ------------------------------------------------- steal counters (wallets)
\* Steal requests are started while fewer than MaxSteals requests have been.
MaxSteals == 3

StealArgs == [op : {"steal_use", "steal_success"}, wallet_id : Ids]

HasWallet(tbl, id) == WalletCount(tbl, id) > 0

\* Row-level locks on wallets rows, as Holder and LockFree on accounts rows.
WalletHolder(id) ==
  IF \E q \in Reqs : id \in DOMAIN wpend[q]
    THEN CHOOSE q \in Reqs : id \in DOMAIN wpend[q]
    ELSE 0
WalletLockFree(r, id) == WalletHolder(id) \in {0, r}

\* The committed wallets row of user id.
WalletOf(tbl, id) == tbl[CHOOSE i \in 1..Len(tbl) : tbl[i].user_id = id]

\* UPDATE wallets SET col = col + 1 WHERE user_id = id, inside r's
\* transaction: the row is locked, and its new value is computed by the store
\* from the row as it is when the statement runs.
WalletUpdate(r, id, col) ==
  IF HasWallet(wallets, id)
    THEN [i \in {id} |-> [WalletOf(wallets, id) EXCEPT ![col] = @ + 1]]
    ELSE wpend[r]

\* The status the store returns for the UPDATE: "UPDATE n", n the rows matched.
UpdateStatus(id) == <<"UPDATE", ToString(WalletCount(wallets, id))>>

\* COMMIT: the transaction's wallets rows replace the committed ones.
ApplyWalletWrites(tbl, w) ==
  [i \in 1..Len(tbl) |->
     IF tbl[i].user_id \in DOMAIN w THEN w[tbl[i].user_id] ELSE tbl[i]]

\* items = int(items)
int(str) == CHOOSE n \in 0..MaxReq : ToString(n) = str

\* Faulty variant: success reported whatever the UPDATE matched.
Success_Always(items) == "true"
\* Lines 172-179 and 195-202: if items: success True, else success False.
Success(items) == IF items # 0 THEN "true" ELSE "false"

\* A steal handler as its request is dispatched: the wallet id is decoded, a
\* connection acquired and a transaction opened.
StealDispatch(r, a, label) ==
  /\ pc[r] = "idle"
  /\ \A q \in Reqs : q < r => pc[q] # "idle"
  /\ started < MaxSteals
  /\ started' = started + 1
  /\ args' = [args EXCEPT ![r] = a]
  /\ Goto(r, label)
  /\ resp' = [resp EXCEPT ![r] = NoResp]
  /\ UNCHANGED <<wpend, tables, pend, plog, loc>>

\* The UPDATE of a steal handler; it waits while another transaction holds the
\* row.
StealUpdate(r, writes, label) ==
  /\ WalletLockFree(r, args[r].wallet_id)
  /\ wpend' = [wpend EXCEPT ![r] = writes]
  /\ loc' = [loc EXCEPT ![r].res = UpdateStatus(args[r].wallet_id)]
  /\ Goto(r, label)
  /\ UNCHANGED <<tables, pend, plog, args, resp, started>>

\* The response is built inside the transaction block; leaving the block
\* commits, and the response is sent.
StealRespond(r) ==
  /\ wallets' = ApplyWalletWrites(wallets, wpend[r])
  /\ wpend' = [wpend EXCEPT ![r] = NoWrites]
  /\ resp' = [resp EXCEPT ![r] =
                [kind |-> "ok", msg |-> "", vals |-> <<Success(int(loc[r].res[2]))>>]]
  /\ Finish(r)
  /\ UNCHANGED <<accounts, transactions, pend, plog, started>>

\* Lines 159-162: inc_steal_use is dispatched.
IncStealUse(r, a) == a.op = "steal_use" /\ StealDispatch(r, a, "su_update")

\* Lines 163-167: steal_uses = steal_uses + 1
IncStealUseWrites(r) == WalletUpdate(r, args[r].wallet_id, "steal_uses")
IncStealUseUpdate(r) ==
  pc[r] = "su_update" /\ StealUpdate(r, IncStealUseWrites(r), "su_respond")

\* Lines 169-179
IncStealUseRespond(r) == pc[r] = "su_respond" /\ StealRespond(r)

\* Lines 182-185: inc_steal_success is dispatched.
IncStealSuccess(r, a) == a.op = "steal_success" /\ StealDispatch(r, a, "ss_update")

\* Faulty variant: the success handler counts a use.
IncStealSuccessWrites_Uses(r) == WalletUpdate(r, args[r].wallet_id, "steal_uses")
\* Lines 186-190: steal_success = steal_success + 1
IncStealSuccessWrites(r) == WalletUpdate(r, args[r].wallet_id, "steal_success")
IncStealSuccessUpdate(r) ==
  pc[r] = "ss_update" /\ StealUpdate(r, IncStealSuccessWrites(r), "ss_respond")

\* Lines 192-202
IncStealSuccessRespond(r) == pc[r] = "ss_respond" /\ StealRespond(r)

RECURSIVE Total(_)
\* SUM(amount) over the rows of an accounts table.
Total(tbl) == IF tbl = <<>> THEN Zero ELSE DecAdd(Head(tbl).amount, Total(Tail(tbl)))

\* ------------------------------------------------------------ gdp, stats
\* SQL NULL, Python None: an aggregate over no rows.
Null == [null |-> TRUE]
\* The infinite balance: numeric 'Infinity', Decimal('inf').
Infinity == [inf |-> TRUE]

RECURSIVE SumColumn(_, _)
\* The total of an integer column over the rows of a table.
SumColumn(tbl, col) == IF tbl = <<>> THEN 0 ELSE Head(tbl)[col] + SumColumn(Tail(tbl), col)

\* SELECT SUM(amount) over rows: NULL over no rows, and every row is summed, an
\* infinite balance among them.
SumAmount(rows) ==
  IF rows = <<>> THEN Null
  ELSE IF \E i \in 1..Len(rows) : rows[i].amount = Infinity THEN Infinity
  ELSE Total(rows)

\* WHERE account_type=$1
OfType(tbl, acc_type) == LET Hit(row) == row.account_type = acc_type IN SelectSeq(tbl, Hit)

\* Lines 216-222
getsum(tbl, acc_type) == SumAmount(OfType(tbl, acc_type))
\* Lines 224-228
get_count(tbl, acc_type) == Len(OfType(tbl, acc_type))
\* Lines 231-236
get_gdp(tbl) == SumAmount(tbl)
\* Lines 291-299: SELECT SUM(col) FROM wallets
StealSum(tbl, col) == IF tbl = <<>> THEN Null ELSE SumColumn(tbl, col)

ReadArgs == [op : {"gdp", "stats"}]

\* Reading requests are started while fewer than MaxReads requests have been.
MaxReads == 3

\* A handler that only reads is dispatched.
ReadDispatch(r, a, label) ==
  /\ pc[r] = "idle"
  /\ \A q \in Reqs : q < r => pc[q] # "idle"
  /\ started < MaxReads
  /\ started' = started + 1
  /\ args' = [args EXCEPT ![r] = a]
  /\ Goto(r, label)
  /\ resp' = [resp EXCEPT ![r] = NoResp]
  /\ UNCHANGED <<wpend, tables, pend, plog, loc>>

\* One awaited query of a reading handler: its value is kept in a local.
Query(r, label, value, next) ==
  /\ pc[r] = label
  /\ loc' = [loc EXCEPT ![r].res = Append(@, value)]
  /\ Goto(r, next)
  /\ UNCHANGED <<wpend, tables, pend, plog, args, resp, started>>

\* The last awaited query of a reading handler, and the response with all the
\* values read.
Reply(r, label, value) ==
  /\ pc[r] = label
  /\ resp' = [resp EXCEPT ![r] =
                [kind |-> "ok", msg |-> "", vals |-> Append(loc[r].res, value)]]
  /\ Finish(r)
  /\ UNCHANGED <<wpend, tables, pend, plog, started>>

\* Lines 270-273: GET /api/gdp
GetGdpHandler(r, a) == a.op = "gdp" /\ ReadDispatch(r, a, "g_gdp")
\* Lines 276-280: GET /api/stats
GetStatsHandler(r, a) == a.op = "stats" /\ ReadDispatch(r, a, "g_gdp")

\* Lines 258-267, get_sums: three queries, one after the other.
GetSumsGdp(r) == Query(r, "g_gdp", get_gdp(accounts), "g_user")
GetSumsUser(r) == Query(r, "g_user", getsum(accounts, USER), "g_taxbank")
GetSumsTaxbank(r) ==
  \/ args[r].op = "gdp" /\ Reply(r, "g_taxbank", getsum(accounts, TAXBANK))
  \/ args[r].op = "stats" /\ Query(r, "g_taxbank", getsum(accounts, TAXBANK), "st_count")

\* Lines 238-255, get_counts
GetCountsAll(r) == Query(r, "st_count", Len(accounts), "st_user")
GetCountsUser(r) == Query(r, "st_user", get_count(accounts, USER), "st_taxbank")
GetCountsTaxbank(r) == Query(r, "st_taxbank", get_count(accounts, TAXBANK), "st_uses")
\* Lines 291-304
StatsStealUses(r) == Query(r, "st_uses", StealSum(wallets, "steal_uses"), "st_success")
StatsStealSuccess(r) == Reply(r, "st_success", StealSum(wallets, "steal_success"))

\* --------------------------------------------------------------- get_wallet
GetArgs == [op : {"get_wallet"}, account_id : Ids]

\* fetchrow: the first row the query selects, None when it selects none.
FetchRow(tbl, key, id) ==
  IF \E i \in 1..Len(tbl) : tbl[i][key] = id
    THEN tbl[CHOOSE i \in 1..Len(tbl) :
               /\ tbl[i][key] = id
               /\ \A j \in 1..Len(tbl) : tbl[j][key] = id => i <= j]
    ELSE None

\* Lines 62-70: daccount = dict(account); daccount.update(dict(wallet)), the
\* wallet row being the three columns selected.
Merged(account, wallet) ==
  [account_id |-> account.account_id, account_type |-> account.account_type,
   amount |-> account.amount, taxpaid |-> wallet.taxpaid,
   steal_uses |-> wallet.steal_uses, steal_success |-> wallet.steal_success]

\* Lines 47-48: get_wallet is dispatched.
GetWallet(r, a) == ReadDispatch(r, a, "w_account")

\* Lines 53-63 and 73: the accounts query; a missing row is the error, a row of
\* a type other than USER is the response.
GetWalletAccount(r) ==
  /\ pc[r] = "w_account"
  /\ UNCHANGED started
  /\ LET account == FetchRow(accounts, "account_id", args[r].account_id)
     IN IF account = None
          THEN Raise(r, "AccountNotFoundError", "Account not found")
          ELSE IF account.account_type = USER
            THEN /\ loc' = [loc EXCEPT ![r].accs = <<account>>]
                 /\ Goto(r, "w_wallet")
                 /\ UNCHANGED <<wpend, tables, pend, plog, args, resp>>
            ELSE /\ resp' = [resp EXCEPT ![r] =
                               [kind |-> "ok", msg |-> "", vals |-> <<account>>]]
                 /\ Finish(r)
                 /\ UNCHANGED <<wpend, tables, pend, plog>>

\* Lines 64-71: the wallets query, a second statement of its own; dict(None)
\* raises TypeError when it selects no row.
GetWalletWallet(r) ==
  /\ pc[r] = "w_wallet"
  /\ UNCHANGED started
  /\ LET wallet == FetchRow(wallets, "user_id", args[r].account_id)
     IN IF wallet = None
          THEN Raise(r, "TypeError", "'NoneType' object is not iterable")
          ELSE /\ resp' = [resp EXCEPT ![r] =
                             [kind |-> "ok", msg |-> "",
                              vals |-> <<Merged(loc[r].accs[1], wallet)>>]]
               /\ Finish(r)
               /\ UNCHANGED <<wpend, tables, pend, plog>>

\* ------------------------------------------------- the statistics reporter
\* src/ext/stats.py reads the accounts as documents of the coin collection:
\* type 'user' is USER, 'taxbank' is TAXBANK, amount the stored balance.

\* int(d) of a Decimal: truncation towards zero; one coin is 10^4 units of c.
IntOfDecimal(d) ==
  LET a == IF DecLT(d, Zero) THEN DecSub(Zero, d) ELSE d
      q == a.c \div 10000
      floor == IF a.c % 10000 = 0 /\ a.f < 0 THEN q - 1 ELSE q
  IN IF DecLT(d, Zero) THEN 0 - floor ELSE floor

\* Lines 73-76 of stats.py: the accounts the loop does not skip.
NotInf(tbl) == LET Finite(row) == row.amount # Infinity IN SelectSeq(tbl, Finite)

\* Lines 71-82 of stats.py: total_coins[0] (acctype 'user') and total_coins[1]
\* ('taxbank') after the loop, from Decimal(0).
total_coins(tbl, acctype) == Total(OfType(NotInf(tbl), acctype))

JcoinArgs == [op : {"jcoin_stats"}]

\* Lines 56-62 of stats.py: the reporter's task is started.
JcoinStats(r, a) == ReadDispatch(r, a, "j_count")

\* Lines 64-69 of stats.py: the three counts and their gauges.
JcoinStatsCounts(r) ==
  /\ pc[r] = "j_count"
  /\ loc' = [loc EXCEPT ![r].res =
               <<Len(accounts), get_count(accounts, USER), get_count(accounts, TAXBANK)>>]
  /\ Goto(r, "j_find")
  /\ UNCHANGED <<wpend, tables, pend, plog, args, resp, started>>

\* Lines 71-88 of stats.py: the loop over the accounts and the gauges usercoins,
\* taxcoins, totalcoins.
JcoinStatsCoins(r) ==
  /\ pc[r] = "j_find"
  /\ LET uc == IntOfDecimal(total_coins(accounts, USER))
         tc == IntOfDecimal(total_coins(accounts, TAXBANK))
     IN resp' = [resp EXCEPT ![r] =
                   [kind |-> "ok", msg |-> "", vals |-> loc[r].res \o <<uc, tc, uc + tc>>]]
  /\ Finish(r)
  /\ UNCHANGED <<wpend, tables, pend, plog, started>>

\* ------------------------------------------------------- the store failing
\* The statements a handler awaits: any of them may raise instead (a lost
\* connection, a timeout, the task cancelled while it waits).
StoreCalls ==
  {"t_fetch", "t_debit", "t_credit", "t_log", "t_commit", "c_account", "c_wallet",
   "su_update", "su_respond", "ss_update", "ss_respond",
   "g_gdp", "g_user", "g_taxbank", "st_count", "st_user", "st_taxbank", "st_uses",
   "st_success", "w_account", "w_wallet", "j_count", "j_find"}

\* The exception is not of the GenericError family; leaving the transaction
\* block with it rolls the transaction back.
StoreError(r) ==
  /\ pc[r] \in StoreCalls
  /\ Raise(r, "StoreError", "store call failed")
  /\ UNCHANGED started

\* The request whose lock request r is waiting for, 0 when it is not waiting.
WaitsFor(r) ==
  IF pc[r] = "t_debit" /\ ~LockFree(r, args[r].sender_id)
    THEN Holder(args[r].sender_id)
    ELSE IF pc[r] = "t_credit" /\ ~LockFree(r, args[r].receiver)
      THEN Holder(args[r].receiver)
      ELSE 0

RECURSIVE WaitChain(_, _)
\* The requests reached from q by following WaitsFor at most n times.
WaitChain(q, n) ==
  IF q = 0 \/ n = 0 THEN {} ELSE {WaitsFor(q)} \cup WaitChain(WaitsFor(q), n - 1)

InDeadlock(r) == r \in WaitChain(r, MaxReq)

\* The store's deadlock detector ends one transaction of a lock cycle with
\* DeadlockDetectedError, which the handler does not catch.
DeadlockAbort(r) ==
  /\ InDeadlock(r)
  /\ Raise(r, "DeadlockDetectedError", "deadlock detected")
  /\ UNCHANGED started

\* -------------------------------------------------------------------- spec
Init ==
  /\ \E t2 \in AccountTypes :
       /\ accounts = <<AccountRow(1, USER, InitBalance),
                       AccountRow(2, t2, IF t2 = USER THEN Zero ELSE MinAmount)>>
       /\ wallets = IF t2 = USER THEN <<WalletRow(1), WalletRow(2)>> ELSE <<WalletRow(1)>>
  /\ transactions = <<>>
  /\ pend = [r \in Reqs |-> NoWrites]
  /\ wpend = [r \in Reqs |-> NoWrites]
  /\ plog = [r \in Reqs |-> <<>>]
  /\ pc = [r \in Reqs |-> "idle"]
  /\ args = [r \in Reqs |-> NoArgs]
  /\ loc = [r \in Reqs |-> NoLoc]
  /\ resp = [r \in Reqs |-> NoResp]
  /\ started = 0

Next ==
  \E r \in Reqs :
    \/ \E a \in TransferArgs : Transfer(r, a)
    \/ \E a \in CreateArgs : CreateAccount(r, a)
    \/ TransferFetch(r)
    \/ TransferDebit(r)
    \/ TransferCredit(r)
    \/ TransferLog(r)
    \/ TransferCommit(r)
    \/ TransferRespond(r)
    \/ CreateInsertAccount(r)
    \/ CreateInsertWallet(r)
    \/ CreateRespond(r)
    \/ StoreError(r)
    \/ DeadlockAbort(r)

Spec == Init /\ [][Next]_vars

\* The steal counters next to account creation.
NextSteal ==
  \E r \in Reqs :
    \/ \E a \in StealArgs : IncStealUse(r, a)
    \/ \E a \in StealArgs : IncStealSuccess(r, a)
    \/ \E a \in CreateArgs : CreateAccount(r, a)
    \/ IncStealUseUpdate(r)
    \/ IncStealUseRespond(r)
    \/ IncStealSuccessUpdate(r)
    \/ IncStealSuccessRespond(r)
    \/ CreateInsertAccount(r)
    \/ CreateInsertWallet(r)
    \/ CreateRespond(r)
    \/ StoreError(r)

SpecSteal == Init /\ [][NextSteal]_vars

\* The ledger with its aggregate reads.
NextSums ==
  \E r \in Reqs :
    \/ \E a \in TransferArgs : Transfer(r, a)
    \/ \E a \in CreateArgs : CreateAccount(r, a)
    \/ \E a \in ReadArgs : GetGdpHandler(r, a)
    \/ \E a \in ReadArgs : GetStatsHandler(r, a)
    \/ TransferFetch(r)
    \/ TransferDebit(r)
    \/ TransferCredit(r)
    \/ TransferLog(r)
    \/ TransferCommit(r)
    \/ TransferRespond(r)
    \/ CreateInsertAccount(r)
    \/ CreateInsertWallet(r)
    \/ CreateRespond(r)
    \/ GetSumsGdp(r)
    \/ GetSumsUser(r)
    \/ GetSumsTaxbank(r)
    \/ GetCountsAll(r)
    \/ GetCountsUser(r)
    \/ GetCountsTaxbank(r)
    \/ StatsStealUses(r)
    \/ StatsStealSuccess(r)
    \/ StoreError(r)
    \/ DeadlockAbort(r)

SpecSums == Init /\ [][NextSums]_vars

\* Reading a wallet next to account creation and the steal counters.
NextWallet ==
  \E r \in Reqs :
    \/ \E a \in GetArgs : GetWallet(r, a)
    \/ \E a \in CreateArgs : CreateAccount(r, a)
    \/ \E a \in StealArgs : IncStealUse(r, a)
    \/ \E a \in StealArgs : IncStealSuccess(r, a)
    \/ GetWalletAccount(r)
    \/ GetWalletWallet(r)
    \/ CreateInsertAccount(r)
    \/ CreateInsertWallet(r)
    \/ CreateRespond(r)
    \/ IncStealUseUpdate(r)
    \/ IncStealUseRespond(r)
    \/ IncStealSuccessUpdate(r)
    \/ IncStealSuccessRespond(r)
    \/ StoreError(r)

SpecWallet == Init /\ [][NextWallet]_vars

\* The transfers run next to every other handler: one amount under the
\* minimum, and the minimum, which account 1 holds and a new account does not.
FrameTransferArgs == {a \in TransferArgs : a.amount \in {Dec(5, 0), MinAmount}}

\* Every handler of the service, MaxStarted requests of whatever kind.
NextAll ==
  \E r \in Reqs :
    \/ \E a \in FrameTransferArgs : Transfer(r, a)
    \/ \E a \in CreateArgs : CreateAccount(r, a)
    \/ started < MaxStarted /\ \E a \in StealArgs : IncStealUse(r, a)
    \/ started < MaxStarted /\ \E a \in StealArgs : IncStealSuccess(r, a)
    \/ started < MaxStarted /\ \E a \in GetArgs : GetWallet(r, a)
    \/ started < MaxStarted /\ \E a \in ReadArgs : GetGdpHandler(r, a)
    \/ started < MaxStarted /\ \E a \in ReadArgs : GetStatsHandler(r, a)
    \/ TransferFetch(r)
    \/ TransferDebit(r)
    \/ TransferCredit(r)
    \/ TransferLog(r)
    \/ TransferCommit(r)
    \/ TransferRespond(r)
    \/ CreateInsertAccount(r)
    \/ CreateInsertWallet(r)
    \/ CreateRespond(r)
    \/ IncStealUseUpdate(r)
    \/ IncStealUseRespond(r)
    \/ IncStealSuccessUpdate(r)
    \/ IncStealSuccessRespond(r)
    \/ GetWalletAccount(r)
    \/ GetWalletWallet(r)
    \/ GetSumsGdp(r)
    \/ GetSumsUser(r)
    \/ GetSumsTaxbank(r)
    \/ GetCountsAll(r)
    \/ GetCountsUser(r)
    \/ GetCountsTaxbank(r)
    \/ StatsStealUses(r)
    \/ StatsStealSuccess(r)
    \/ StoreError(r)
    \/ DeadlockAbort(r)

SpecAll == Init /\ [][NextAll]_vars

\* The balances of a store that holds system accounts: whole and fractional
\* amounts, and the infinite sentinel.
StatAmounts == {Zero, MinAmount, Dec(10000, 0), Dec(15000, 0), Infinity}

\* A store with a USER account, a TAXBANK account and a third account of either
\* type, any of which a system account of infinite balance.
InitStats ==
  /\ \E a1 \in StatAmounts, a2 \in StatAmounts, a3 \in StatAmounts, t3 \in AccountTypes :
       /\ accounts = <<AccountRow(1, USER, a1), AccountRow(2, TAXBANK, a2),
                       AccountRow(3, t3, a3)>>
       /\ wallets = IF t3 = USER THEN <<WalletRow(1), WalletRow(3)>> ELSE <<WalletRow(1)>>
  /\ transactions = <<>>
  /\ pend = [r \in Reqs |-> NoWrites]
  /\ wpend = [r \in Reqs |-> NoWrites]
  /\ plog = [r \in Reqs |-> <<>>]
  /\ pc = [r \in Reqs |-> "idle"]
  /\ args = [r \in Reqs |-> NoArgs]
  /\ loc = [r \in Reqs |-> NoLoc]
  /\ resp = [r \in Reqs |-> NoResp]
  /\ started = 0

\* The aggregate reads of the ledger and the statistics reporter.
NextStats ==
  \E r \in Reqs :
    \/ \E a \in ReadArgs : GetGdpHandler(r, a)
    \/ \E a \in ReadArgs : GetStatsHandler(r, a)
    \/ \E a \in JcoinArgs : JcoinStats(r, a)
    \/ GetSumsGdp(r)
    \/ GetSumsUser(r)
    \/ GetSumsTaxbank(r)
    \/ GetCountsAll(r)
    \/ GetCountsUser(r)
    \/ GetCountsTaxbank(r)
    \/ StatsStealUses(r)
    \/ StatsStealSuccess(r)
    \/ JcoinStatsCounts(r)
    \/ JcoinStatsCoins(r)
    \/ StoreError(r)

SpecStats == InitStats /\ [][NextStats]_vars

\* ------------------------------------------------------------- properties
AccountIds(tbl) == {tbl[i].account_id : i \in 1..Len(tbl)}
IsPrefix(s, t) == Len(s) <= Len(t) /\ \A i \in 1..Len(s) : s[i] = t[i]
\* Request r's transaction commits in this step.
Commits(r) == pc[r] = "t_commit" /\ pc'[r] = "t_respond"

\* C1: every step leaves the sum of the committed balances as it was, whatever
\* requests interleave; the set of accounts summed over changes only when a
\* create_account request inserts its row, and that row's balance is zero.
C1_Conservation ==
  [][/\ Total(accounts') = Total(accounts)
     /\ AccountIds(accounts') # AccountIds(accounts) =>
          \E r \in Reqs :
            /\ pc[r] = "c_account"
            /\ accounts' =
                 Append(accounts, AccountRow(args[r].account_id, args[r].type, Zero))]_vars

\* A transfer has committed into an account a create_account request inserted.
C1_Witness ==
  /\ Len(transactions) = 1
  /\ Len(accounts) = 3
  /\ AmountOf(accounts, 3) # Zero

\* C2: no committed balance is negative, however the read, check and update
\* steps of concurrent transfers interleave (the initial balances are not).
C2_NoOverdraft ==
  \A i \in 1..Len(accounts) : ~DecLT(accounts[i].amount, Zero)

\* C3: a transfer between two distinct existing accounts, of an amount of at
\* least 0.0009 that exceeds the sender's balance, is answered ConditionError by
\* the step that reads the balance; that step changes no table, the request has
\* written nothing and it ends there.
C3_InsufficientFunds ==
  [][\A r \in Reqs :
       (/\ TransferFetch(r)
        /\ args[r].sender_id # args[r].receiver
        /\ HasAccount(accounts, args[r].sender_id)
        /\ HasAccount(accounts, args[r].receiver)
        /\ DecLE(MinAmount, args[r].amount)
        /\ DecLT(AmountOf(accounts, args[r].sender_id), args[r].amount))
       => /\ resp'[r].kind = "ConditionError"
          /\ pc'[r] = "idle"
          /\ pend[r] = NoWrites /\ plog[r] = <<>>
          /\ UNCHANGED tables]_vars

\* A transfer was refused for lack of funds after another one had committed.
C3_Witness ==
  /\ \E r \in Reqs : resp[r].kind = "ConditionError"
  /\ Len(transactions) = 1

\* C4: a transfer whose receiver is its sender is answered InputError as it is
\* dispatched, for every id (existing or not) and every amount (valid or not);
\* it changes no table and the request ends there.
C4_SelfTransfer ==
  [][\A r \in Reqs :
       (pc[r] = "idle" /\ started' # started) =>
         \A x \in Ids : \A amt \in Amounts :
           Transfer(r, [op |-> "transfer", sender_id |-> x, receiver |-> x, amount |-> amt])
           => /\ resp'[r].kind = "InputError"
              /\ pc'[r] = "idle"
              /\ pend'[r] = NoWrites /\ plog'[r] = <<>>
              /\ UNCHANGED tables]_vars

\* A self-transfer was refused.
C4_Witness ==
  \E r \in Reqs :
    /\ resp[r].kind = "InputError"
    /\ resp[r].msg = "Account can not transfer to itself"

\* C5: for distinct sender and receiver, a transfer of an amount below 0.0009
\* is answered InputError as it is dispatched and changes nothing; an amount of
\* exactly 0.0009 passes the amount check.
C5_MinimumAmount ==
  [][\A r \in Reqs : \A a \in TransferArgs :
       (Transfer(r, a) /\ a.receiver # a.sender_id)
       => IF DecLT(a.amount, MinAmount)
            THEN /\ resp'[r].kind = "InputError"
                 /\ pc'[r] = "idle"
                 /\ UNCHANGED tables
            ELSE a.amount = MinAmount => pc'[r] = "t_fetch"]_vars

\* The error the validation order of the specification asks for, "" for none:
\* self-transfer, amount below 0.0009, sender missing, receiver missing, funds.
ExpectedError(a, tbl) ==
  IF a.receiver = a.sender_id THEN <<"InputError", "Account can not transfer to itself">>
  ELSE IF DecLT(a.amount, MinAmount) THEN <<"InputError", "Negative amounts are not allowed">>
  ELSE IF ~HasAccount(tbl, a.sender_id) THEN <<"AccountNotFoundError", "Sender is missing account">>
  ELSE IF ~HasAccount(tbl, a.receiver) THEN <<"AccountNotFoundError", "Receiver is missing account">>
  ELSE IF DecLT(AmountOf(tbl, a.sender_id), a.amount) THEN <<"ConditionError", "Not enough funds">>
  ELSE <<"", "">>

\* C6: a transfer that fails validation is answered with the error of the first
\* failing check, in the order self-transfer, amount below 0.0009, sender
\* missing, receiver missing, insufficient funds; the steps that validate change
\* no table, and the request has written nothing before it passes the last one.
C6_ValidationOrder ==
  [][\A r \in Reqs :
       /\ \A a \in TransferArgs :
            Transfer(r, a) =>
              /\ UNCHANGED tables
              /\ ExpectedError(a, accounts)[1] = "InputError"
                   => <<resp'[r].kind, resp'[r].msg>> = ExpectedError(a, accounts)
              /\ ExpectedError(a, accounts)[1] # "InputError" => pc'[r] = "t_fetch"
       /\ TransferFetch(r) =>
            /\ UNCHANGED tables
            /\ pend[r] = NoWrites /\ plog[r] = <<>>
            /\ IF ExpectedError(args[r], accounts)[1] = ""
                 THEN pc'[r] = "t_debit"
                 ELSE <<resp'[r].kind, resp'[r].msg>> = ExpectedError(args[r], accounts)]_vars

\* The balances of the rows of tbl that are already in accounts are those of
\* accounts but for s, changed by -amt, and r, changed by +amt.
Moved(tbl, s, r, amt) ==
  /\ Len(tbl) >= Len(accounts)
  /\ \A i \in 1..Len(accounts) :
       /\ tbl[i].account_id = accounts[i].account_id
       /\ tbl[i].amount =
            IF accounts[i].account_id = s THEN DecSub(accounts[i].amount, amt)
            ELSE IF accounts[i].account_id = r THEN DecAdd(accounts[i].amount, amt)
            ELSE accounts[i].amount

\* C7: the audit log only grows at its end, and a step changes the log or the
\* balance of an existing account only as the commit of one transfer, which
\* appends exactly one record (sender, receiver, amount) and moves that amount
\* in the same step; every other step, a refused or aborted transfer among them,
\* leaves both alone.
C7_AuditLogAtomic ==
  [][/\ IsPrefix(transactions, transactions')
     /\ (transactions' # transactions \/ ~Moved(accounts', 0, 0, Zero)) =>
          \E r \in Reqs :
            /\ Commits(r)
            /\ transactions' =
                 Append(transactions,
                        TxRow(args[r].sender_id, args[r].receiver, args[r].amount))
            /\ Moved(accounts', args[r].sender_id, args[r].receiver, args[r].amount)
            /\ ~Moved(accounts', 0, 0, Zero)]_vars

\* One transfer has committed and another was rolled back by a store failure.
C7_Witness ==
  /\ Len(transactions) = 1
  /\ \E r \in Reqs : resp[r].kind = "Unhandled" /\ resp[r].msg = "StoreError"

\* C8: the accounts INSERT of create_account adds one row of the requested type
\* with balance zero, the wallets INSERT one row with zero counters; when a
\* create_account responds, its id has exactly one account row, of the
\* requested type, and exactly one wallet row if the type is USER, none if not.
C8_CreationPairing ==
  [][\A r \in Reqs :
       /\ (CreateInsertAccount(r) /\ accounts' # accounts) =>
            accounts' = Append(accounts, AccountRow(args[r].account_id, args[r].type, Zero))
       /\ CreateInsertWallet(r) =>
            wallets' = Append(wallets,
                              [user_id |-> args[r].account_id, taxpaid |-> Zero,
                               steal_uses |-> 0, steal_success |-> 0])
       /\ CreateRespond(r) =>
            /\ AccountCount(accounts, args[r].account_id) = 1
            /\ \A i \in 1..Len(accounts) :
                 accounts[i].account_id = args[r].account_id
                   => accounts[i].account_type = args[r].type
            /\ WalletCount(wallets, args[r].account_id) =
                 IF args[r].type = USER THEN 1 ELSE 0]_vars

\* A create_account for the fresh id 3, of type USER, has responded.
C8_Witness ==
  /\ \E r \in Reqs : resp[r].kind = "ok" /\ resp[r].vals = <<"1">>
  /\ \E i \in 1..Len(accounts) :
       accounts[i].account_id = 3 /\ accounts[i].account_type = USER
  /\ WalletCount(wallets, 3) = 1

\* C9: in every state, an id has a USER account row exactly if it has a wallet
\* row.
C9_CreationAtomic ==
  \A id \in Ids :
    (\E i \in 1..Len(accounts) :
       accounts[i].account_id = id /\ accounts[i].account_type = USER)
    <=> WalletCount(wallets, id) >= 1

\* C10: a create_account for an id that already has a row is answered with an
\* error of the GenericError family, in the error envelope, changes no table
\* and ends there.
C10_DuplicateCreation ==
  [][\A r \in Reqs :
       (CreateInsertAccount(r) /\ HasAccount(accounts, args[r].account_id))
       => /\ resp'[r].kind \in GenericErrors
          /\ pc'[r] = "idle"
          /\ UNCHANGED tables]_vars

\* ------------------------------------------------ properties: steal counters
\* Request r's steal transaction commits with its response in this step.
StealCommits(r) ==
  /\ pc[r] \in {"su_respond", "ss_respond"}
  /\ pc'[r] = "idle"
  /\ resp'[r].kind = "ok"

\* ... and its UPDATE had matched the wallet of the user it names.
StealApplies(r) == StealCommits(r) /\ args[r].wallet_id \in DOMAIN wpend[r]

\* The wallets rows other than user id's are the same in t as in tbl.
OtherWalletsSame(tbl, t, id) ==
  /\ Len(t) = Len(tbl)
  /\ \A i \in 1..Len(tbl) : tbl[i].user_id # id => t[i] = tbl[i]

\* C11: every steal increment that commits after matching a wallet raises the
\* counter its route names by exactly one, counted from the value stored when
\* it commits, and leaves the wallet's other counter, its taxpaid and every
\* other wallet as they are; no other step changes a stored counter.  So k
\* uses and m successes in any interleaving add exactly k and m.
C11_CounterIndependence ==
  [][/\ \A r \in Reqs :
          StealApplies(r) =>
            LET u == args[r].wallet_id
                old == WalletOf(wallets, u)
                new == WalletOf(wallets', u)
                use == IF args[r].op = "steal_use" THEN 1 ELSE 0
            IN /\ new.steal_uses = old.steal_uses + use
               /\ new.steal_success = old.steal_success + (1 - use)
               /\ new.taxpaid = old.taxpaid
               /\ OtherWalletsSame(wallets, wallets', u)
     /\ (\A r \in Reqs : ~StealApplies(r)) =>
          \A i \in 1..Len(wallets) : i <= Len(wallets') /\ wallets'[i] = wallets[i]]_vars

\* Wallet 1 after two uses and one success.
C11_Witness ==
  /\ HasWallet(wallets, 1)
  /\ WalletOf(wallets, 1).steal_uses = 2
  /\ WalletOf(wallets, 1).steal_success = 1

\* C12: the UPDATE of a steal increment matches a row exactly when a wallet of
\* the user is stored as it runs; the response says success true exactly when
\* it matched; and a success false response comes from a request that changed
\* no table.
C12_StealOutcome ==
  [][\A r \in Reqs :
       /\ pc[r] \in {"su_update", "ss_update"} /\ pc'[r] \in {"su_respond", "ss_respond"} =>
            /\ (int(loc'[r].res[2]) # 0) <=> HasWallet(wallets, args[r].wallet_id)
            /\ (int(loc'[r].res[2]) = 0) => wpend'[r] = NoWrites
            /\ UNCHANGED tables
       /\ StealCommits(r) =>
            /\ resp'[r].vals = <<"true">> <=> int(loc[r].res[2]) # 0
            /\ resp'[r].vals = <<"false">> <=> int(loc[r].res[2]) = 0
            /\ resp'[r].vals = <<"false">> => UNCHANGED tables]_vars

\* Both outcomes sent: one increment on a missing wallet, one on a stored one.
C12_Witness ==
  /\ resp[1].kind = "ok" /\ resp[1].vals = <<"false">>
  /\ resp[2].kind = "ok" /\ resp[2].vals = <<"true">>
  /\ \E i \in 1..Len(wallets) : wallets[i].steal_uses + wallets[i].steal_success = 1

\* ---------------------------------------------- properties: transfer, cont.
\* The balance of account id in the rows transfer r read at line 112.
ReadBalance(r, id) == Get(loc[r].accs, id).amount

\* C13: the rows a transfer keeps from its validation read are the committed
\* rows of that moment and stay with it until it responds; its success response
\* is (sender balance read - amount, receiver balance read + amount); and when
\* the stored balances of sender and receiver are at the commit what was read,
\* the balances the commit stores are the two values of the response.
C13_TransferResponse ==
  [][\A r \in Reqs :
       /\ pc[r] = "t_fetch" /\ pc'[r] = "t_debit" =>
            /\ Get(loc'[r].accs, args[r].sender_id).amount = AmountOf(accounts, args[r].sender_id)
            /\ Get(loc'[r].accs, args[r].receiver).amount = AmountOf(accounts, args[r].receiver)
       /\ pc[r] \in {"t_debit", "t_credit", "t_log", "t_commit"} /\ pc'[r] # "idle" =>
            loc'[r] = loc[r] /\ args'[r] = args[r]
       /\ pc[r] = "t_respond" /\ pc'[r] = "idle" =>
            /\ resp'[r].kind = "ok"
            /\ resp'[r].vals =
                 <<DecSub(ReadBalance(r, args[r].sender_id), args[r].amount),
                   DecAdd(ReadBalance(r, args[r].receiver), args[r].amount)>>
       /\ /\ Commits(r)
          /\ AmountOf(accounts, args[r].sender_id) = ReadBalance(r, args[r].sender_id)
          /\ AmountOf(accounts, args[r].receiver) = ReadBalance(r, args[r].receiver)
          => /\ AmountOf(accounts', args[r].sender_id) = TransferResponse(r).vals[1]
             /\ AmountOf(accounts', args[r].receiver) = TransferResponse(r).vals[2]]_vars

\* 0.0009 moved from account 1 (0.0018) to account 2: the response is the two
\* balances stored.
C13_Witness ==
  \E r \in Reqs :
    /\ resp[r].kind = "ok"
    /\ Len(resp[r].vals) = 2
    /\ transactions = <<TxRow(1, 2, Dec(9, 0))>>
    /\ resp[r].vals = <<Dec(9, 0), AmountOf(accounts, 2)>>
    /\ AmountOf(accounts, 1) = Dec(9, 0)

\* --------------------------------------------------- properties: aggregates
\* An absent sum counted as zero.
NullAsZero(x) == IF x = Null THEN Zero ELSE x

\* No request other than r is in flight.
Quiescent(r) == \A q \in Reqs \ {r} : pc[q] = "idle"

\* C14: a GET /api/gdp that answers while no other request is in flight, and
\* whose two earlier sums are still those of the stored table, reports a gdp
\* equal to its user sum plus its taxbank sum, an absent sum counted as zero.
C14_AggregationConsistency ==
  [][\A r \in Reqs :
       /\ pc[r] = "g_taxbank" /\ pc'[r] = "idle"
       /\ resp'[r].kind = "ok"
       /\ Quiescent(r)
       /\ loc[r].res = <<get_gdp(accounts), getsum(accounts, USER)>>
       => NullAsZero(resp'[r].vals[1]) =
            DecAdd(NullAsZero(resp'[r].vals[2]), NullAsZero(resp'[r].vals[3]))]_vars

\* ------------------------------------------------------ properties: locking
\* C15: in no reachable state is a transfer blocked on a row lock held by a
\* transfer that is, directly or through others, blocked on a row lock the
\* first one holds.
C15_DeadlockFreedom == \A r \in Reqs : ~InDeadlock(r)

\* --------------------------------------------------- properties: get_wallet
\* get_wallet request r ends in this step, and not by a failure of the store.
GetWalletEnds(r) ==
  /\ pc[r] \in {"w_account", "w_wallet"}
  /\ pc'[r] = "idle"
  /\ resp'[r].msg # "StoreError"

\* C16: a get_wallet ends with AccountNotFound exactly when its accounts query
\* finds no row of the id; when the stored account is a USER it ends with the
\* account fields merged with the stored wallet's taxpaid, steal_uses and
\* steal_success; for an account of another type it ends with the account
\* fields alone; and no step of it changes a table.
C16_GetWallet ==
  [][\A r \in Reqs :
       /\ (pc[r] \in {"w_account", "w_wallet"} /\ pc'[r] # pc[r]) => UNCHANGED tables
       /\ (pc[r] = "w_account" /\ pc'[r] # pc[r] /\ resp'[r].msg # "StoreError") =>
            (resp'[r].kind = "AccountNotFoundError"
               <=> ~HasAccount(accounts, args[r].account_id))
       /\ (GetWalletEnds(r) /\ HasAccount(accounts, args[r].account_id)) =>
            LET account == FetchRow(accounts, "account_id", args[r].account_id)
            IN /\ resp'[r].kind = "ok"
               /\ IF account.account_type = USER
                    THEN /\ HasWallet(wallets, args[r].account_id)
                         /\ resp'[r].vals =
                              <<Merged(account,
                                       FetchRow(wallets, "user_id", args[r].account_id))>>
                    ELSE resp'[r].vals = <<account>>]_vars

\* ------------------------------------------------ properties: wallets, moves
\* C17: in every state, the user_id of each wallets row is the id of an
\* accounts row of type USER, and no other wallets row has that user_id.
C17_WalletRelation ==
  \A i \in 1..Len(wallets) :
    /\ \E j \in 1..Len(accounts) :
         /\ accounts[j].account_id = wallets[i].user_id
         /\ accounts[j].account_type = USER
    /\ WalletCount(wallets, wallets[i].user_id) = 1

\* Account 3 was created as a USER with its wallet, and a second create_account
\* was refused as a duplicate.
C17_Witness ==
  /\ WalletCount(wallets, 3) = 1
  /\ \E r \in Reqs : resp[r].kind = "Unhandled" /\ resp[r].msg = "UniqueViolationError"

\* C18: the commit of a transfer stores, for its sender, the balance stored
\* just before the commit less the amount, and for its receiver that balance
\* plus the amount, whatever was read at validation; the accounts table keeps
\* its rows, their order and types, and every other balance; the wallets table
\* is unchanged.
C18_ExactMove ==
  [][\A r \in Reqs :
       Commits(r) =>
         /\ args[r].sender_id # args[r].receiver
         /\ AmountOf(accounts', args[r].sender_id) =
              DecSub(AmountOf(accounts, args[r].sender_id), args[r].amount)
         /\ AmountOf(accounts', args[r].receiver) =
              DecAdd(AmountOf(accounts, args[r].receiver), args[r].amount)
         /\ Len(accounts') = Len(accounts)
         /\ \A i \in 1..Len(accounts) :
              /\ accounts'[i].account_id = accounts[i].account_id
              /\ accounts'[i].account_type = accounts[i].account_type
              /\ accounts[i].account_id \notin {args[r].sender_id, args[r].receiver}
                   => accounts'[i].amount = accounts[i].amount
         /\ wallets' = wallets]_vars

\* Two transfers from account 1 have committed, the second after the first had
\* changed the balance the second had read: 0.0018 - 0.0018 - 0.0009.
C18_Witness ==
  /\ Len(transactions) = 2
  /\ transactions[1].sender = 1 /\ transactions[2].sender = 1
  /\ AmountOf(accounts, 1) = Dec(-9, 0)

\* ---------------------------------------------------- properties: the frame
\* C19: whatever handler takes a step, every accounts row stays in its place
\* with its id and its type, and its balance changes only in the commit of a
\* transfer that names the account as sender or receiver; account creation,
\* refused or not, the steal increments, get_wallet, the gdp and stats reads and
\* every refused or aborted transfer leave every stored balance as it was.
C19_BalanceFrame ==
  [][/\ Len(accounts') >= Len(accounts)
     /\ \A i \in 1..Len(accounts) :
          /\ accounts'[i].account_id = accounts[i].account_id
          /\ accounts'[i].account_type = accounts[i].account_type
          /\ accounts'[i].amount # accounts[i].amount =>
               \E r \in Reqs :
                 /\ Commits(r)
                 /\ accounts[i].account_id \in {args[r].sender_id, args[r].receiver}]_vars

\* A transfer has committed and a steal increment has: the balances are those
\* the transfer left.
C19_Witness ==
  /\ transactions = <<TxRow(1, 2, MinAmount)>>
  /\ \E i \in 1..Len(wallets) : wallets[i].steal_uses + wallets[i].steal_success = 1
  /\ AmountOf(accounts, 1) = DecSub(InitBalance, MinAmount)

\* --------------------------------------------- properties: infinite balances
\* The sum over the accounts of type t whose balance is finite.
FiniteSum(tbl, t) == Total(OfType(NotInf(tbl), t))

\* A whole number of coins as a decimal.
Coins(n) == Dec(n * 10000, 0)

\* C20: every aggregate sum reported leaves out the accounts of infinite
\* balance: the gdp, user and taxbank values of the ledger's get_sums are the
\* sums over the finite balances (of every account, of the USER accounts, of the
\* TAXBANK accounts; an absent sum counted as zero), and the reporter's
\* usercoins, taxcoins and totalcoins gauges are the sums over the finite
\* balances of the user accounts, of the taxbank accounts and of both.
C20_InfiniteExcluded ==
  [][\A r \in Reqs :
       /\ (pc[r] = "g_taxbank" /\ pc'[r] = "idle" /\ resp'[r].kind = "ok") =>
            /\ NullAsZero(resp'[r].vals[1]) =
                 DecAdd(FiniteSum(accounts, USER), FiniteSum(accounts, TAXBANK))
            /\ NullAsZero(resp'[r].vals[2]) = FiniteSum(accounts, USER)
            /\ NullAsZero(resp'[r].vals[3]) = FiniteSum(accounts, TAXBANK)
       /\ (pc[r] = "j_find" /\ pc'[r] = "idle" /\ resp'[r].kind = "ok") =>
            /\ Coins(resp'[r].vals[4]) = FiniteSum(accounts, USER)
            /\ Coins(resp'[r].vals[5]) = FiniteSum(accounts, TAXBANK)
            /\ Coins(resp'[r].vals[6]) =
                 DecAdd(FiniteSum(accounts, USER), FiniteSum(accounts, TAXBANK))]_vars

====
